---- MODULE Spec2Model ----
(***************************************************************************)
(* Term / Expression symbolic algebra of the operator-overloading lesson   *)
(* (ch07dry/050OperatorsExample.ipynb.py), modelled as a heap of Python    *)
(* objects and one action per call a user of the classes can make.         *)
(*                                                                         *)
(*   dicts  heap of dict objects; a dict is the ordered sequence of its    *)
(*          items [k, v] (insertion order, unique keys)                    *)
(*   terms  heap of Term objects [coefficient, data]; data is the address  *)
(*          of a dict, so two Terms can share one mapping                  *)
(*   exprs  heap of Expression objects; an Expression is its terms list,   *)
(*          whose elements are Python values                               *)
(*   call   the last call made: [op, args]                                 *)
(*   ret    what that call returned or raised                              *)
(***************************************************************************)
EXTENDS Integers, Sequences, FiniteSets, TLC

VARIABLES dicts, terms, exprs, call, ret

vars == <<dicts, terms, exprs, call, ret>>

----------------------------------------------------------------------------
(* Bounds of the model *)

\* Term objects the heap may hold
MaxTerms == 2
\* Expression objects the heap may hold
MaxExprs == 2
\* Term and Expression objects the heap of SpecFrame may hold
MaxObjects == 3
\* largest coefficient (in absolute value) a Term on the heap has
MaxCoeff == 100
\* most operands of one multiply call
MaxOthers == 2
\* most operands of one add call
MaxAddends == 1

\* symbols, each one character long
Symbols == {"x", "y"}
\* integer constants a caller passes
Consts == {5}
\* exponents a caller passes
Pows == {0, 1, 2}
\* parallel sequences a caller passes: equal and unequal lengths, a repeated symbol
SymLists == {<<>>, <<"x">>, <<"x", "y">>, <<"x", "x">>}
PowLists == {<<>>, <<2>>, <<2, 1>>}
\* dict literals a caller passes
DictLits == {<<>>, <<[k |-> "x", v |-> 2], [k |-> "y", v |-> 1]>>}

----------------------------------------------------------------------------
(* Python values.  Every value is a record of the same shape:              *)
(*   kind "int"   n = the integer                                          *)
(*   kind "str"   s = the string                                           *)
(*   kind "list"  l = the elements (strings or integers)                   *)
(*   kind "dict" / "term" / "expr"   n = the address in the heap           *)
(*   kind "text"  l = a str result, as its sequence of characters          *)
(*   kind "none"  None                                                     *)
(*   kind "error" s = the exception raised                                 *)

Val(kind, n, s, l) == [kind |-> kind, n |-> n, s |-> s, l |-> l]
IntV(n) == Val("int", n, "", <<>>)
StrV(s) == Val("str", 0, s, <<>>)
ListV(l) == Val("list", 0, "", l)
DictV(a) == Val("dict", a, "", <<>>)
TermV(a) == Val("term", a, "", <<>>)
ExprV(a) == Val("expr", a, "", <<>>)
TextV(t) == Val("text", 0, "", t)
NoneV == Val("none", 0, "", <<>>)
ErrV(e) == Val("error", 0, e, <<>>)

\* the heap as one value, and the outcome of a call: the heap after it and
\* the value it returned or the error it raised
Heap(ds, ts, es) == [dicts |-> ds, terms |-> ts, exprs |-> es]
Out(h, r) == [h |-> h, ret |-> r]

----------------------------------------------------------------------------
(* dict *)

DictKeys(d) == {d[i].k : i \in DOMAIN d}
DictHas(d, k) == \E i \in DOMAIN d : d[i].k = k
DictGet(d, k) == d[CHOOSE i \in DOMAIN d : d[i].k = k].v
\* d[k] = v: an existing key keeps its position, a new one goes last
DictSet(d, k, v) ==
    IF DictHas(d, k)
    THEN [i \in DOMAIN d |-> IF d[i].k = k THEN [k |-> k, v |-> v] ELSE d[i]]
    ELSE Append(d, [k |-> k, v |-> v])
\* the mapping a dict denotes (== on dicts ignores insertion order)
AsMap(d) == [k \in DictKeys(d) |-> DictGet(d, k)]

Min(a, b) == IF a < b THEN a ELSE b

\* {symbol: exponent for symbol, exponent in zip(symbols, powers)}
RECURSIVE ZipDict(_, _, _)
ZipDict(symbols, powers, i) ==
    IF i = 0 THEN <<>>
    ELSE DictSet(ZipDict(symbols, powers, i - 1), symbols[i], powers[i])

\* dict(d): a new dict object holding d's items; returns its address
dict_copy(h, a) ==
    [h |-> [h EXCEPT !.dicts = Append(@, h.dicts[a])], ref |-> Len(h.dicts) + 1]
\* a new dict object with the given items
dict_new(h, d) ==
    [h |-> [h EXCEPT !.dicts = Append(@, d)], ref |-> Len(h.dicts) + 1]

\* objects allocated since the heap had nd dicts and ne Expressions and
\* left unreachable by an exception are freed
Collect(h, nd, ne) ==
    [h EXCEPT !.dicts = SubSeq(@, 1, Min(nd, Len(@))),
              !.exprs = SubSeq(@, 1, Min(ne, Len(@)))]

----------------------------------------------------------------------------
(* Term construction.  coefficient and the exponents are integers here:    *)
(* callers pass integers in those positions.                               *)

\* the Term object under construction gets its two attributes
TermObj(h, coefficient, data) ==
    Out([h EXCEPT !.terms = Append(@, [coefficient |-> coefficient, data |-> data])],
        TermV(Len(h.terms) + 1))

\* the argument at position i, or the default of the signature
Arg(args, i, default) == IF Len(args) >= i THEN args[i] ELSE default

from_constant(h, args) ==
    LET d == dict_new(h, <<>>)
    IN  TermObj(d.h, args[1].n, d.ref)

\* from_symbol with the coefficient and the power taken for each other
from_symbol_swapped(h, args) ==
    IF Len(args) > 3 THEN Out(h, ErrV("TypeError"))
    ELSE LET d == dict_new(h, <<[k |-> args[1].s, v |-> Arg(args, 2, IntV(1)).n]>>)
         IN  TermObj(d.h, Arg(args, 3, IntV(1)).n, d.ref)

from_symbol(h, args) ==
    IF Len(args) > 3 THEN Out(h, ErrV("TypeError"))
    ELSE LET symbol == args[1].s
             coefficient == Arg(args, 2, IntV(1)).n
             power == Arg(args, 3, IntV(1)).n
             d == dict_new(h, <<[k |-> symbol, v |-> power]>>)
         IN  TermObj(d.h, coefficient, d.ref)

from_dictionary(h, args) ==
    IF Len(args) > 2 THEN Out(h, ErrV("TypeError"))
    ELSE LET data == args[1].n
             coefficient == Arg(args, 2, IntV(1)).n
         IN  TermObj(h, coefficient, data)

\* from_lists that leaves the coefficient at 1
from_lists_unit(h, args) ==
    IF Len(args) > 3 THEN Out(h, ErrV("TypeError"))
    ELSE LET symbols == Arg(args, 1, ListV(<<>>))
             powers == Arg(args, 2, ListV(<<>>))
         IN  IF symbols.kind # "list" \/ powers.kind # "list"
             THEN Out(h, ErrV("TypeError"))
             ELSE LET d == dict_new(h, ZipDict(symbols.l, powers.l,
                                               Min(Len(symbols.l), Len(powers.l))))
                  IN  TermObj(d.h, 1, d.ref)

\* zip() needs two iterables; of the values here only a list is one
from_lists(h, args) ==
    IF Len(args) > 3 THEN Out(h, ErrV("TypeError"))
    ELSE LET symbols == Arg(args, 1, ListV(<<>>))
             powers == Arg(args, 2, ListV(<<>>))
             coefficient == Arg(args, 3, IntV(1)).n
         IN  IF symbols.kind # "list" \/ powers.kind # "list"
             THEN Out(h, ErrV("TypeError"))
             ELSE LET d == dict_new(h, ZipDict(symbols.l, powers.l,
                                               Min(Len(symbols.l), Len(powers.l))))
                  IN  TermObj(d.h, coefficient, d.ref)

\* Term(*args)
Term__init__(h, args) ==
    IF Len(args) = 0 THEN Out(h, ErrV("IndexError"))
    ELSE LET lead == args[1]
         IN  IF lead.kind = "term"
             THEN LET d == dict_copy(h, h.terms[lead.n].data)
                  IN  TermObj(d.h, h.terms[lead.n].coefficient, d.ref)
             ELSE IF lead.kind = "int" THEN from_constant(h, <<lead>>)
             ELSE IF lead.kind = "str" THEN from_symbol(h, args)
             ELSE IF lead.kind = "dict" THEN from_dictionary(h, args)
             ELSE from_lists(h, args)

----------------------------------------------------------------------------
(* Expression construction *)

\* Expression(terms): self.terms = list(terms), a new list
Expression__init__(h, ts) ==
    Out([h EXCEPT !.exprs = Append(@, ts)], ExprV(Len(h.exprs) + 1))

----------------------------------------------------------------------------
(* Arithmetic *)

\* Term.add(self, *others)
Term_add(h, self, others) ==
    Expression__init__(h, <<TermV(self)>> \o others)

\* result_data = self.data, the mapping of self itself
multiply_result_data_shared(h, self) == [h |-> h, ref |-> h.terms[self].data]

\* result_data = dict(self.data)
multiply_result_data(h, self) == dict_copy(h, h.terms[self].data)

\* multiply_merge with = where the code has +=
RECURSIVE multiply_merge_assign(_, _, _)
multiply_merge_assign(result_data, another_data, j) ==
    IF j = 0 THEN result_data
    ELSE DictSet(multiply_merge_assign(result_data, another_data, j - 1),
                 another_data[j].k, another_data[j].v)

\* the inner loop of multiply over the first j items of another.data
RECURSIVE multiply_merge(_, _, _)
multiply_merge(result_data, another_data, j) ==
    IF j = 0 THEN result_data
    ELSE LET rd == multiply_merge(result_data, another_data, j - 1)
             symbol == another_data[j].k
         IN  IF DictHas(rd, symbol)
             THEN DictSet(rd, symbol, DictGet(rd, symbol) + DictGet(another_data, symbol))
             ELSE DictSet(rd, symbol, DictGet(another_data, symbol))

\* the outer loop of multiply from operand i on: map(Term, others) converts
\* each operand when the loop reaches it; the converted Term is dropped after
\* its turn.  result_data is the address of the dict updated in place.
RECURSIVE multiply_loop(_, _, _, _, _)
multiply_loop(h, result_data, result_coeff, others, i) ==
    IF i > Len(others)
    THEN Term__init__(h, <<DictV(result_data), IntV(result_coeff)>>)
    ELSE LET conv == Term__init__(h, <<others[i]>>)
         IN  IF conv.ret.kind = "error" THEN Out(h, conv.ret)
             ELSE LET another == conv.h.terms[conv.ret.n]
                      another_data == conv.h.dicts[another.data]
                      h2 == [h EXCEPT !.dicts[result_data] =
                                multiply_merge(@, another_data, Len(another_data))]
                  IN  multiply_loop(h2, result_data,
                                    result_coeff * another.coefficient, others, i + 1)

\* Term.multiply(self, *others)
Term_multiply(h, self, others) ==
    LET rd == multiply_result_data(h, self)
        out == multiply_loop(rd.h, rd.ref, h.terms[self].coefficient, others, 1)
    IN  IF out.ret.kind = "error"
        THEN Out(Collect(out.h, Len(h.dicts), Len(h.exprs)), out.ret)
        ELSE out

\* result = Expression(), without the terms of self
add_result_empty(h, self) == Expression__init__(h, <<>>)

\* result = Expression(self.terms)
add_result(h, self) == Expression__init__(h, h.exprs[self])

\* the loop of Expression.add from operand i on; result is the address of
\* the Expression whose list is extended in place
RECURSIVE add_loop(_, _, _, _)
add_loop(h, result, others, i) ==
    IF i > Len(others) THEN Out(h, ExprV(result))
    ELSE LET another == others[i]
         IN  IF another.kind = "term"
             THEN add_loop([h EXCEPT !.exprs[result] = Append(@, another)],
                           result, others, i + 1)
             ELSE IF another.kind = "expr"
             THEN add_loop([h EXCEPT !.exprs[result] = @ \o h.exprs[another.n]],
                           result, others, i + 1)
             ELSE Out(h, ErrV("AttributeError"))

\* Expression.add(self, *others)
Expression_add(h, self, others) ==
    LET r == add_result(h, self)
        out == add_loop(r.h, r.ret.n, others, 1)
    IN  IF out.ret.kind = "error"
        THEN Out(Collect(out.h, Len(h.dicts), Len(h.exprs)), out.ret)
        ELSE out

\* Expression.multiply(self, another): the body is pass
Expression_multiply(h, self, another) == Out(h, NoneV)

Term__add__(h, self, other) == Term_add(h, self, <<other>>)
Term__mul__(h, self, other) == Term_multiply(h, self, <<other>>)
\* a Term without the reflected multiplication
Term__rmul__absent(h, self, other) == Out(h, ErrV("TypeError"))
Term__rmul__(h, self, other) == Term__mul__(h, self, other)
Term__radd__(h, self, other) == Term__add__(h, self, other)
Expression__add__(h, self, other) == Expression_add(h, self, <<other>>)
Expression__radd__(h, self, other) == Expression__add__(h, self, other)

\* a * b: the left operand's __mul__ when it has one (only Term does), else
\* the right operand's __rmul__ (only Term has one), else TypeError
Mul(h, a, b) ==
    IF a.kind = "term" THEN Term__mul__(h, a.n, b)
    ELSE IF b.kind = "term" THEN Term__rmul__(h, b.n, a)
    ELSE Out(h, ErrV("TypeError"))

\* a + b, where a or b is a Term or an Expression: the left operand's
\* __add__ when it is one of the two, else the right operand's __radd__
Add(h, a, b) ==
    IF a.kind = "term" THEN Term__add__(h, a.n, b)
    ELSE IF a.kind = "expr" THEN Expression__add__(h, a.n, b)
    ELSE IF b.kind = "term" THEN Term__radd__(h, b.n, a)
    ELSE IF b.kind = "expr" THEN Expression__radd__(h, b.n, a)
    ELSE Out(h, ErrV("TypeError"))

----------------------------------------------------------------------------
(* Rendering.  A str is the sequence of its characters. *)

Digits == <<"0", "1", "2", "3", "4", "5", "6", "7", "8", "9">>
RECURSIVE NatStr(_)
NatStr(n) ==
    IF n < 10 THEN <<Digits[n + 1]>>
    ELSE NatStr(n \div 10) \o <<Digits[(n % 10) + 1]>>
\* str(n) of an int
IntStr(n) == IF n < 0 THEN <<"-">> \o NatStr(-n) ELSE NatStr(n)

\* symbol_string without the case of the power 1
symbol_string_always(symbol, power) == <<symbol, "^">> \o IntStr(power)

symbol_string(symbol, power) ==
    IF power = 1 THEN <<symbol>>
    ELSE <<symbol, "^">> \o IntStr(power)

\* [symbol_string(symbol, power) for symbol, power in self.data.items()]
symbol_strings(data) == [i \in DOMAIN data |-> symbol_string(data[i].k, data[i].v)]

\* sep.join(strings)
RECURSIVE Join(_, _, _)
Join(sep, strings, n) ==
    IF n = 0 THEN <<>>
    ELSE IF n = 1 THEN strings[1]
    ELSE Join(sep, strings, n - 1) \o sep \o strings[n]

\* Term.__str__(self)
Term__str__(h, self) ==
    LET coefficient == h.terms[self].coefficient
        strings == symbol_strings(h.dicts[h.terms[self].data])
        prod == Join(<<"*">>, strings, Len(strings))
    IN  IF prod = <<>> THEN Out(h, TextV(IntStr(coefficient)))
        ELSE IF coefficient = 1 THEN Out(h, TextV(prod))
        ELSE Out(h, TextV(IntStr(coefficient) \o <<"*">> \o prod))

----------------------------------------------------------------------------
(* The calls a user of the two classes makes.  Four specifications share   *)
(* the operators above and differ in the calls made:                       *)
(*   Spec       builds Terms in every way, multiplies two, renders them    *)
(*   SpecMul    multiplies Terms by Terms and raw values                   *)
(*   SpecExpr   adds two given Terms, raw values and Expressions           *)
(*   SpecFrame  multiplies and adds, starting from one given Term          *)

H == Heap(dicts, terms, exprs)

TermRefs == {TermV(a) : a \in DOMAIN terms}
ExprRefs == {ExprV(a) : a \in DOMAIN exprs}
Raw == {IntV(c) : c \in Consts} \cup {StrV(s) : s \in Symbols}
\* the raw values SpecExpr and SpecFrame pass
AddRaw == {IntV(5), StrV("y")}
FrameRaw == {StrV("y")}

\* the argument lists of at most n values of S
Lists(S, n) == UNION {[1..k -> S] : k \in 0..n}

IntVs(ns) == [i \in DOMAIN ns |-> IntV(ns[i])]

\* no coefficient exceeds the bound
Bounded(h) ==
    \A a \in DOMAIN h.terms :
        h.terms[a].coefficient <= MaxCoeff /\ -h.terms[a].coefficient <= MaxCoeff

\* the call is made and its outcome kept; an exception is not caught, so no
\* call follows one that raised
Do(op, args, out) ==
    /\ ret.kind # "error"
    /\ Bounded(out.h)
    /\ dicts' = out.h.dicts
    /\ terms' = out.h.terms
    /\ exprs' = out.h.exprs
    /\ call' = [op |-> op, args |-> args]
    /\ ret' = out.ret

\* Term(*args)
Construct(args) == Do("Term", args, Term__init__(H, args))

Empty ==
    /\ dicts = <<>>
    /\ terms = <<>>
    /\ exprs = <<>>

Init ==
    /\ Empty
    /\ call = [op |-> "", args |-> <<>>]
    /\ ret = NoneV

\* Term(t)
TermCopy(room) ==
    /\ room
    /\ \E t \in TermRefs : Construct(<<t>>)

\* Term(5)
TermConstant(room) ==
    /\ room
    /\ \E c \in Consts : Construct(<<IntV(c)>>)

\* Term('x'), Term('x', 5), Term('x', 5, 2)
TermSymbol(room) ==
    /\ room
    /\ \E s \in Symbols :
         \/ \E rest \in Lists(Consts, 1) : Construct(<<StrV(s)>> \o IntVs(rest))
         \/ \E c \in Consts, p \in Pows : Construct(<<StrV(s), IntV(c), IntV(p)>>)

\* Term(d), Term(d, 5) with d a dict literal or the dict of an existing Term
TermDictionary(room) ==
    /\ room
    /\ \E rest \in Lists(Consts, 1) :
         \/ \E a \in DOMAIN dicts : Construct(<<DictV(a)>> \o IntVs(rest))
         \/ \E lit \in DictLits :
              LET d == dict_new(H, lit)
                  args == <<DictV(d.ref)>> \o IntVs(rest)
              IN  Do("Term", args, Term__init__(d.h, args))

\* Term(['x', 'y']), Term(['x', 'y'], [2, 1]), Term(['x', 'y'], [2, 1], 5)
TermLists(room) ==
    /\ room
    /\ \E symbols \in SymLists :
         \/ Construct(<<ListV(symbols)>>)
         \/ \E powers \in PowLists, rest \in Lists(Consts, 1) :
              Construct(<<ListV(symbols), ListV(powers)>> \o IntVs(rest))

\* Term(5, d), Term(5, ['x', 'y'], [2, 1]): arguments after a leading int
TermConstantThen(room) ==
    /\ room
    /\ \E c \in Consts :
         \/ \E a \in DOMAIN dicts : Construct(<<IntV(c), DictV(a)>>)
         \/ \E symbols \in SymLists, powers \in PowLists :
              Construct(<<IntV(c), ListV(symbols), ListV(powers)>>)

\* t.multiply(*others)
Multiply(S, room) ==
    /\ room
    /\ \E self \in DOMAIN terms, others \in Lists(S, MaxOthers) :
         Do("Term.multiply", <<TermV(self)>> \o others, Term_multiply(H, self, others))

\* a * b with a Term on one side at least
MulOp(S, room) ==
    /\ room
    /\ \E a \in S, b \in S :
         /\ a.kind = "term" \/ b.kind = "term"
         /\ Do("*", <<a, b>>, Mul(H, a, b))

\* str(t)
TermStr ==
    \E self \in DOMAIN terms : Do("str", <<TermV(self)>>, Term__str__(H, self))

\* Expression([t, ...])
NewExpression(room) ==
    /\ room
    /\ \E ts \in Lists(TermRefs, MaxAddends) :
         Do("Expression", ts, Expression__init__(H, ts))

\* t.add(*others)
TermAdd(S, room) ==
    /\ room
    /\ \E self \in DOMAIN terms, others \in Lists(S, MaxAddends) :
         Do("Term.add", <<TermV(self)>> \o others, Term_add(H, self, others))

\* e.add(*others)
ExpressionAdd(S, room) ==
    /\ room
    /\ \E self \in DOMAIN exprs, others \in Lists(S, MaxAddends) :
         Do("Expression.add", <<ExprV(self)>> \o others, Expression_add(H, self, others))

\* e.multiply(another)
ExpressionMultiply(S) ==
    \E self \in DOMAIN exprs, another \in S :
        Do("Expression.multiply", <<ExprV(self), another>>,
           Expression_multiply(H, self, another))

\* a + b with a Term or an Expression on one side at least
AddOp(S, room) ==
    /\ room
    /\ \E a \in S, b \in S :
         /\ a.kind \in {"term", "expr"} \/ b.kind \in {"term", "expr"}
         /\ Do("+", <<a, b>>, Add(H, a, b))

----------------------------------------------------------------------------
(* Spec: Terms are built in every way, multiplied by a Term or by 'x' and   *)
(* rendered.                                                               *)
(* Terms are made while the heap has room for one more; any is rendered.   *)

TermRoom == Len(terms) < MaxTerms

NewCopy == TermCopy(TermRoom)
NewConstant == TermConstant(TermRoom)
NewSymbol == TermSymbol(TermRoom)
NewDictionary == TermDictionary(TermRoom)
NewLists == TermLists(TermRoom)
NewConstantThen == TermConstantThen(TermRoom)
TermTimes == MulOp(TermRefs \cup {StrV("x")}, TermRoom)

Next ==
    \/ NewCopy
    \/ NewConstant
    \/ NewSymbol
    \/ NewDictionary
    \/ NewLists
    \/ NewConstantThen
    \/ TermTimes
    \/ TermStr

Spec == Init /\ [][Next]_vars

----------------------------------------------------------------------------
(* SpecMul: Terms are built from a constant, a symbol or another Term and  *)
(* multiplied by Terms and raw values                                      *)

MulOperands == TermRefs \cup Raw

TermMultiply == Multiply(MulOperands, TermRoom)
TermMulOp == MulOp(MulOperands, TermRoom)

NextMul ==
    \/ NewCopy
    \/ NewConstant
    \/ NewSymbol
    \/ TermMultiply
    \/ TermMulOp

SpecMul == Init /\ [][NextMul]_vars

----------------------------------------------------------------------------
(* SpecExpr: x = Term('x') and two = Term(2) exist; they, raw values and   *)
(* the Expressions made of them are added while the heap has room for one  *)
(* more Expression                                                         *)

Given(h) ==
    /\ dicts = h.dicts
    /\ terms = h.terms
    /\ exprs = h.exprs
    /\ call = [op |-> "", args |-> <<>>]
    /\ ret = NoneV

InitExpr ==
    Given(Term__init__(Term__init__(Heap(<<>>, <<>>, <<>>), <<StrV("x")>>).h,
                       <<IntV(2)>>).h)

ExprRoom == Len(exprs) < MaxExprs
ExprOperands == TermRefs \cup ExprRefs \cup AddRaw

ExprNew == NewExpression(ExprRoom)
ExprTermAdd == TermAdd(ExprOperands, ExprRoom)
ExprAdd == ExpressionAdd(ExprOperands, ExprRoom)
ExprAddOp == AddOp(ExprOperands, ExprRoom)

NextExpr ==
    \/ ExprNew
    \/ ExprTermAdd
    \/ ExprAdd
    \/ ExprAddOp

SpecExpr == InitExpr /\ [][NextExpr]_vars

----------------------------------------------------------------------------
(* SpecTimes: Term('x') and Term(2) exist; Expressions are made of them    *)
(* while the heap has room for one more, and any Expression is multiplied  *)
(* by any Term, Expression or raw value                                    *)

TimesNew == NewExpression(ExprRoom)
TimesTermAdd == TermAdd(TermRefs, ExprRoom)
TimesMultiply == ExpressionMultiply(TermRefs \cup ExprRefs \cup FrameRaw)

NextTimes ==
    \/ TimesNew
    \/ TimesTermAdd
    \/ TimesMultiply

SpecTimes == InitExpr /\ [][NextTimes]_vars

----------------------------------------------------------------------------
(* SpecFrame: t = Term('x', 2) exists; it, the raw 'y' and what is made of *)
(* them are multiplied and added while the heap has room for one more      *)
(* object                                                                  *)

InitFrame ==
    Given(Term__init__(Heap(<<>>, <<>>, <<>>), <<StrV("x"), IntV(2)>>).h)

FrameRoom == Len(terms) + Len(exprs) < MaxObjects
FrameOperands == TermRefs \cup ExprRefs \cup FrameRaw

FrameMultiply == Multiply(FrameOperands, FrameRoom)
FrameTermAdd == TermAdd(FrameOperands, FrameRoom)
FrameAdd == ExpressionAdd(FrameOperands, FrameRoom)

NextFrame ==
    \/ FrameMultiply
    \/ FrameTermAdd
    \/ FrameAdd

SpecFrame == InitFrame /\ [][NextFrame]_vars

----------------------------------------------------------------------------
(* What the claims speak of, read off the heap *)

Coeff(a) == terms[a].coefficient
DataOf(a) == dicts[terms[a].data]
\* the exponent a mapping gives a symbol, 0 when the symbol is absent
ExpIn(d, s) == IF DictHas(d, s) THEN DictGet(d, s) ELSE 0

\* an operand of multiply as the factor it stands for: a Term, the constant
\* k for an integer k, the symbol to the power 1 for a string
OperandCoeff(v) ==
    IF v.kind = "term" THEN Coeff(v.n) ELSE IF v.kind = "int" THEN v.n ELSE 1
OperandExp(v, s) ==
    IF v.kind = "term" THEN ExpIn(DataOf(v.n), s)
    ELSE IF v.kind = "str" /\ v.s = s THEN 1 ELSE 0
OperandKeys(v) ==
    IF v.kind = "term" THEN DictKeys(DataOf(v.n))
    ELSE IF v.kind = "str" THEN {v.s} ELSE {}

RECURSIVE ProdCoeff(_, _)
ProdCoeff(vs, n) == IF n = 0 THEN 1 ELSE ProdCoeff(vs, n - 1) * OperandCoeff(vs[n])
RECURSIVE SumExp(_, _, _)
SumExp(vs, s, n) == IF n = 0 THEN 0 ELSE SumExp(vs, s, n - 1) + OperandExp(vs[n], s)

\* vs is the product of the factors: coefficient and exponents of Term r
IsProduct(r, vs) ==
    /\ Coeff(r) = ProdCoeff(vs, Len(vs))
    /\ DictKeys(DataOf(r)) = UNION {OperandKeys(vs[i]) : i \in DOMAIN vs}
    /\ \A s \in DictKeys(DataOf(r)) : DictGet(DataOf(r), s) = SumExp(vs, s, Len(vs))

----------------------------------------------------------------------------
\* C1: t.multiply(*others), each operand a Term, an integer or a symbol
\* string, returns a Term whose coefficient is t's times the product of the
\* operands' coefficients and whose monomial maps each symbol to the sum of
\* the exponents t and the operands contribute; with no operand the result
\* has t's coefficient and a monomial equal to t's.
C1_MultiplyIsProduct ==
    call.op = "Term.multiply" =>
        /\ ret.kind = "term"
        /\ IsProduct(ret.n, call.args)
        /\ Len(call.args) = 1 =>
             /\ Coeff(ret.n) = Coeff(call.args[1].n)
             /\ AsMap(DataOf(ret.n)) = AsMap(DataOf(call.args[1].n))

\* t.multiply(t, 'x') with t = 5*x: 25*x^3
C1_Witness ==
    /\ call.op = "Term.multiply"
    /\ Len(call.args) = 3
    /\ call.args[2].kind = "term"
    /\ call.args[3] = StrV("x")
    /\ ret.kind = "term"
    /\ Coeff(ret.n) = 25
    /\ DataOf(ret.n) = <<[k |-> "x", v |-> 3]>>

----------------------------------------------------------------------------
\* the value at position i of an argument list, or the default
ArgOr(args, i, default) == IF Len(args) >= i THEN args[i].n ELSE default

\* the mapping parallel sequences of equal length denote: each symbol with
\* the power at its last position
ZipMap(symbols, powers) ==
    [s \in {symbols[i] : i \in DOMAIN symbols} |->
        powers[CHOOSE i \in DOMAIN symbols :
                   symbols[i] = s /\ \A j \in DOMAIN symbols : j > i => symbols[j] # s]]

\* the powers passed with the symbols, [] when none are
PowersArg(args) == IF Len(args) >= 2 THEN args[2].l ELSE <<>>

----------------------------------------------------------------------------
X2Y == <<[k |-> "x", v |-> 2], [k |-> "y", v |-> 1]>>

\* C3 as stated: a leading numeric coefficient followed by a mapping or by
\* parallel symbol and power sequences yields a Term with that coefficient
\* and that monomial.
C3_LeadingCoefficient ==
    (call.op = "Term" /\ call.args[1].kind = "int" /\ Len(call.args) >= 2) =>
        /\ ret.kind = "term"
        /\ Coeff(ret.n) = call.args[1].n
        /\ call.args[2].kind = "dict" =>
             AsMap(DataOf(ret.n)) = AsMap(dicts[call.args[2].n])
        /\ (/\ call.args[2].kind = "list"
            /\ Len(call.args) = 3
            /\ Len(call.args[2].l) = Len(call.args[3].l)) =>
             AsMap(DataOf(ret.n)) = ZipMap(call.args[2].l, call.args[3].l)

\* C3, amended: the coefficient comes last.  A mapping or parallel
\* sequences followed by a coefficient yield a Term with that coefficient
\* and that monomial; a leading integer yields the constant Term, whatever
\* follows it.  5*x^2*y times x (a Term or the raw 'x') is 5*x^3*y, and
\* 5*x^2*y renders as "5*x^2*y".
C3_TrailingCoefficient ==
    /\ (call.op = "Term" /\ call.args[1].kind = "int") =>
         /\ ret.kind = "term"
         /\ Coeff(ret.n) = call.args[1].n
         /\ DataOf(ret.n) = <<>>
    /\ (call.op = "Term" /\ call.args[1].kind = "dict" /\ Len(call.args) = 2) =>
         /\ ret.kind = "term"
         /\ Coeff(ret.n) = call.args[2].n
         /\ AsMap(DataOf(ret.n)) = AsMap(dicts[call.args[1].n])
    /\ (/\ call.op = "Term"
        /\ call.args[1].kind = "list"
        /\ Len(call.args) = 3
        /\ Len(call.args[1].l) = Len(call.args[2].l)) =>
         /\ ret.kind = "term"
         /\ Coeff(ret.n) = call.args[3].n
         /\ AsMap(DataOf(ret.n)) = ZipMap(call.args[1].l, call.args[2].l)
    /\ (/\ call.op = "*"
        /\ call.args[1].kind = "term"
        /\ Coeff(call.args[1].n) = 5
        /\ AsMap(DataOf(call.args[1].n)) = AsMap(X2Y)
        /\ \/ call.args[2] = StrV("x")
           \/ /\ call.args[2].kind = "term"
              /\ Coeff(call.args[2].n) = 1
              /\ DataOf(call.args[2].n) = <<[k |-> "x", v |-> 1]>>) =>
         /\ ret.kind = "term"
         /\ Coeff(ret.n) = 5
         /\ AsMap(DataOf(ret.n)) = ("x" :> 3) @@ ("y" :> 1)
    /\ (call.op = "str" /\ Coeff(call.args[1].n) = 5 /\ DataOf(call.args[1].n) = X2Y) =>
         ret.l = <<"5", "*", "x", "^", "2", "*", "y">>

\* Term(['x', 'y'], [2, 1], 5) * 'x'
C3_Witness ==
    /\ call.op = "*"
    /\ call.args[1].kind = "term"
    /\ Coeff(call.args[1].n) = 5
    /\ DataOf(call.args[1].n) = X2Y
    /\ call.args[2] = StrV("x")
    /\ ret.kind = "term"
    /\ Coeff(ret.n) = 5
    /\ DataOf(ret.n) = <<[k |-> "x", v |-> 3], [k |-> "y", v |-> 1]>>

----------------------------------------------------------------------------
\* the outcome of a call on the heap h, as coefficient and mapping
SameTerm(o) ==
    /\ o.ret.kind = "term"
    /\ o.h.terms[o.ret.n].coefficient = Coeff(ret.n)
    /\ AsMap(o.h.dicts[o.h.terms[o.ret.n].data]) = AsMap(DataOf(ret.n))

\* C4: for a Term t and a raw integer or symbol string k, k * t and t * k
\* both succeed and give Terms with the same coefficient and the same
\* mapping, the product of the two; 5 * Term('x') and Term('x') * 5 have
\* coefficient 5 and monomial {x: 1}.
C4_MulSymmetric ==
    (/\ call.op = "*"
     /\ {call.args[1].kind, call.args[2].kind} \in {{"term", "int"}, {"term", "str"}}) =>
        /\ ret.kind = "term"
        /\ IsProduct(ret.n, call.args)
        /\ SameTerm(Mul(H, call.args[2], call.args[1]))

\* 5 * Term('x')
C4_Witness ==
    /\ call.op = "*"
    /\ call.args[1] = IntV(5)
    /\ call.args[2].kind = "term"
    /\ Coeff(call.args[2].n) = 1
    /\ DataOf(call.args[2].n) = <<[k |-> "x", v |-> 1]>>
    /\ ret.kind = "term"
    /\ Coeff(ret.n) = 5
    /\ DataOf(ret.n) = <<[k |-> "x", v |-> 1]>>

----------------------------------------------------------------------------
\* a raw value: an integer or a symbol string
IsRaw(v) == v.kind \in {"int", "str"}

\* C5 as stated: for a raw symbol string or integer k and a Term or an
\* Expression v, k + v and v + k both succeed and yield the same Expression.
C5_AddSymmetric ==
    (/\ call.op = "+"
     /\ \/ IsRaw(call.args[1]) /\ call.args[2].kind \in {"term", "expr"}
        \/ IsRaw(call.args[2]) /\ call.args[1].kind \in {"term", "expr"}) =>
        /\ ret.kind = "expr"
        /\ LET rev == Add(H, call.args[2], call.args[1])
           IN  /\ rev.ret.kind = "expr"
               /\ rev.h.exprs[rev.ret.n] = exprs[ret.n]

----------------------------------------------------------------------------
\* what the first n operands append: a Term itself, an Expression its terms
RECURSIVE Flat(_, _)
Flat(vs, n) ==
    IF n = 0 THEN <<>>
    ELSE Flat(vs, n - 1) \o (IF vs[n].kind = "expr" THEN exprs[vs[n].n] ELSE <<vs[n]>>)

----------------------------------------------------------------------------
\* C7 as stated: every element of the terms of every Expression is a Term,
\* never a raw string, a raw integer or a nested Expression.
C7_TermsAreTerms ==
    \A e \in DOMAIN exprs : \A i \in DOMAIN exprs[e] : exprs[e][i].kind = "term"

----------------------------------------------------------------------------
\* C8: no call of Term.multiply, Term.add or Expression.add, successful or
\* failing, changes the mapping or the coefficient of an existing Term or
\* the terms of an existing Expression, and the Term or Expression returned
\* is a new object holding a new mapping or sequence.
C8_NoMutation ==
    [][/\ \A a \in DOMAIN dicts : a \in DOMAIN dicts' /\ dicts'[a] = dicts[a]
       /\ \A a \in DOMAIN terms : a \in DOMAIN terms' /\ terms'[a] = terms[a]
       /\ \A a \in DOMAIN exprs : a \in DOMAIN exprs' /\ exprs'[a] = exprs[a]
       /\ ret'.kind = "term" =>
            ret'.n \notin DOMAIN terms /\ terms'[ret'.n].data \notin DOMAIN dicts
       /\ ret'.kind = "expr" => ret'.n \notin DOMAIN exprs]_vars

\* t.multiply(...) returned a Term whose mapping differs from t's
C8_Witness ==
    /\ call.op = "Term.multiply"
    /\ ret.kind = "term"
    /\ AsMap(DataOf(ret.n)) # AsMap(DataOf(call.args[1].n))
    /\ \E i \in 2..Len(call.args) : call.args[i].kind = "term"

----------------------------------------------------------------------------
\* symbol, or symbol^exponent when the exponent is not 1
ItemText(item) ==
    IF item.v = 1 THEN <<item.k>> ELSE <<item.k, "^">> \o IntStr(item.v)
\* the items from position i on, joined with '*'
RECURSIVE MonomialText(_, _)
MonomialText(d, i) ==
    IF i = Len(d) THEN ItemText(d[i])
    ELSE ItemText(d[i]) \o <<"*">> \o MonomialText(d, i + 1)

\* C9: str(t) is the coefficient alone when the monomial is empty; else the
\* monomial string (symbol, or symbol^exponent when the exponent is not 1,
\* joined with '*' in iteration order), preceded by 'coefficient*' unless
\* the coefficient is 1.
C9_Rendering ==
    call.op = "str" =>
        LET c == Coeff(call.args[1].n)
            d == DataOf(call.args[1].n)
        IN  /\ ret.kind = "text"
            /\ ret.l = IF d = <<>> THEN IntStr(c)
                       ELSE IF c = 1 THEN MonomialText(d, 1)
                       ELSE IntStr(c) \o <<"*">> \o MonomialText(d, 1)

\* str(Term(['x', 'y'], [2, 1])) = "x^2*y"
C9_Witness ==
    /\ call.op = "str"
    /\ Coeff(call.args[1].n) = 1
    /\ DataOf(call.args[1].n) = X2Y
    /\ ret.l = <<"x", "^", "2", "*", "y">>

----------------------------------------------------------------------------
\* C10 as stated: Term(symbols, powers, ...) with sequences of unequal
\* length is a construction error and yields no Term.
C10_ShapeMismatch ==
    (/\ call.op = "Term"
     /\ call.args[1].kind = "list"
     /\ Len(call.args) >= 2
     /\ Len(call.args[1].l) # Len(call.args[2].l)) =>
        ret.kind = "error"

----------------------------------------------------------------------------
\* C11 as stated: e.multiply(another) fails with a NotImplemented error for
\* every Expression e and every operand; it never completes normally with
\* an empty or null result.
C11_MultiplyRaises ==
    call.op = "Expression.multiply" =>
        ret.kind = "error" /\ ret.s = "NotImplemented"

----------------------------------------------------------------------------
\* C12 as stated: in every Term reachable by constructions and
\* multiplications no symbol of the mapping has the exponent 0.
C12_NoZeroExponent ==
    \A t \in DOMAIN terms :
        \A i \in DOMAIN DataOf(t) : DataOf(t)[i].v # 0

====
